---- MODULE Spec2Model ----
(***************************************************************************)
(* Model of AirHockeyPrepare                                               *)
(* (mushroom_rl/environments/pybullet_envs/air_hockey/prepare.py).         *)
(*                                                                         *)
(* Real numbers are fixed-point integers with four decimals: the integer   *)
(* n stands for n / 10^4, so 0.47 is 4700 and -0.6 is -6000.  A float      *)
(* result is a record [finite, v]: finite = FALSE is numpy's nan.          *)
(* The physics engine and the parent class AirHockeySingle are external:   *)
(* what they hand to a method (contact points, the simulation state, the   *)
(* base absorbing check, the parent observation) is an input of the        *)
(* action that models the method.  The variable call records the most      *)
(* recent call: its operation, its inputs and what it returned.            *)
(***************************************************************************)
EXTENDS Integers, Sequences, FiniteSets, TLC

VARIABLES
    random_init,      \* self.random_init
    action_penalty,   \* self.action_penalty
    sub_problem,      \* self.sub_problem
    start_range,      \* self.start_range, <<x-range, y-range>>
    desired_point,    \* self.desired_point
    ee_end_pos,       \* self.ee_end_pos
    has_hit,          \* self.has_hit
    has_bounce,       \* self.has_bounce
    puck_pos,         \* self.puck_pos, <<>> is None
    call,             \* the most recent call, its inputs and its result
    step              \* the position in the environment's step loop

vars == <<random_init, action_penalty, sub_problem, start_range, desired_point,
          ee_end_pos, has_hit, has_bounce, puck_pos, call, step>>

(***************************************************************************)
(* Bounds of the model.                                                    *)
(***************************************************************************)
\* the contact queries of one call report at most MaxContacts contact points
\* in total
MaxContacts == 2
\* np.random.rand() is one of the RandDen values k / RandDen, k < RandDen
RandDen == 2
\* an environment step integrates the physics at most MaxIntermediate times
MaxIntermediate == 2

(***************************************************************************)
(* Fixed-point arithmetic.                                                 *)
(***************************************************************************)
S == 10^4

Abs(a) == IF a < 0 THEN -a ELSE a

Max2(a, b) == IF a >= b THEN a ELSE b

Min2(a, b) == IF a <= b THEN a ELSE b

\* product of two fixed-point numbers
Mul(a, b) == (a * b) \div S

RECURSIVE SqrtSearch(_, _, _)
SqrtSearch(n, lo, hi) ==
    IF lo >= hi THEN lo
    ELSE LET mid == (lo + hi + 1) \div 2
         IN  IF mid * mid <= n THEN SqrtSearch(n, mid, hi)
                               ELSE SqrtSearch(n, lo, mid - 1)

\* floor of the square root of a natural number
ISqrt(n) == SqrtSearch(n, 0, 46340)

\* np.linalg.norm of a vector of fixed-point numbers
RECURSIVE SumSq(_)
SumSq(v) == IF v = <<>> THEN 0 ELSE Head(v) * Head(v) + SumSq(Tail(v))

norm(v) == ISqrt(SumSq(v))

RECURSIVE ExpSeries(_, _, _, _)
ExpSeries(f, k, term, acc) ==
    IF term = 0 \/ k > 16 THEN acc
    ELSE LET t == (term * f) \div (k * S)
         IN  ExpSeries(f, k + 1, t, acc + t)

RECURSIVE ExpScale(_, _)
ExpScale(v, n) ==
    IF n = 0 THEN v
    ELSE IF n < 0 THEN ExpScale((v * S) \div 27183, n + 1)
    ELSE ExpScale((v * 27183) \div S, n - 1)

\* np.exp: e^(x/S) * S, Taylor series on the fraction, powers of e on the rest
exp(x) == ExpScale(ExpSeries(x % S, 1, S, S), x \div S)

\* np.clip(a, lo, hi)
clip(a, lo, hi) == Min2(Max2(a, lo), hi)

\* np.copysign(m, y): m with the sign of y
copysign(m, y) == IF y < 0 THEN -m ELSE m

\* the @ of two 2-vectors
dot(a, b) == Mul(a[1], b[1]) + Mul(a[2], b[2])

\* a float that is a number, and numpy's nan
Fin(n) == [finite |-> TRUE, v |-> n]

NaN == [finite |-> FALSE, v |-> 0]

(***************************************************************************)
(* The inputs the external collaborators can hand to the methods.          *)
(***************************************************************************)
\* puck positions of a simulation state: on both sides of every threshold
\* the code compares x or |y| with, and on the thresholds -0.9, -0.6, 0.47
PuckPositions == {<<1000, 2000>>, <<-2000, 3000>>, <<-6000, 0>>,
                  <<-7500, 3000>>, <<-9000, -3000>>, <<-7500, 4700>>}

\* puck linear velocities of a simulation state
PuckVelocities == {<<0, 0>>, <<500, -1000>>}

\* end-effector positions: the reference position, and one on a puck position
EEPositions == {<<-8100, 0>>, <<-7500, 3000>>}

\* joint torques
Actions == {<<0, 0, 0>>, <<3000, 4000, 0>>}

\* observations assembled by the parent class
ParentObservations == {<<>>, <<-7500, 3000>>}

\* results of the five getContactPoints queries, by the number of contact
\* points: <<puck/striker, <<the four puck/rim>>>>
ContactResults ==
    {c \in (0..MaxContacts) \X ((0..MaxContacts) \X (0..MaxContacts)
                                \X (0..MaxContacts) \X (0..MaxContacts)) :
        c[1] + c[2][1] + c[2][2] + c[2][3] + c[2][4] <= MaxContacts}

\* values of np.random.rand()
RandValues == {(k * S) \div RandDen : k \in 0..(RandDen - 1)}

(***************************************************************************)
(* __init__                                                                *)
(***************************************************************************)
init_start_range(sp) ==
    IF sp = "side" THEN <<<<-8000, -4000>>, <<2500, 4600>>>>
                   ELSE <<<<-9000, -8000>>, <<1250, 4600>>>>

\* action_penalty is the default 1e-3; ee_end_pos is
\* [-8.10001913e-01, -1.43459494e-06] to four decimals; sub_problem is one of
\* the two available values
Init ==
    /\ random_init \in BOOLEAN
    /\ action_penalty = 10
    /\ sub_problem \in {"side", "bottom"}
    /\ start_range = init_start_range(sub_problem)
    /\ desired_point = <<-6000, 0>>
    /\ ee_end_pos = <<-8100, 0>>
    /\ has_hit = FALSE
    /\ has_bounce = FALSE
    /\ puck_pos = <<>>
    /\ call = [op |-> "__init__"]
    /\ step = [pc |-> "constructed"]

(***************************************************************************)
(* setup                                                                   *)
(***************************************************************************)
\* the random position with both coordinates multiplied by the sign
random_puck_pos_mirror_both(sr, u, sign) ==
    <<(Mul(u[1], sr[1][2] - sr[1][1]) + sr[1][1]) * sign,
      (Mul(u[2], sr[2][2] - sr[2][1]) + sr[2][1]) * sign>>

\* np.random.rand(2) * (start_range[:, 1] - start_range[:, 0]) + start_range[:, 0],
\* then puck_pos *= [1, sign]
random_puck_pos(sr, u, sign) ==
    <<Mul(u[1], sr[1][2] - sr[1][1]) + sr[1][1],
      (Mul(u[2], sr[2][2] - sr[2][1]) + sr[2][1]) * sign>>

\* np.mean(start_range, axis=1)
mean_puck_pos(sr) ==
    <<(sr[1][1] + sr[1][2]) \div 2, (sr[2][1] + sr[2][2]) \div 2>>

\* setup() drawing the puck position in place, in the lower bounds of
\* self.start_range
setup_at_in_place(pos) ==
    /\ puck_pos' = IF random_init THEN pos ELSE puck_pos
    /\ desired_point' = <<pos[1], 0>>
    /\ call' = [op |-> "setup", placed |-> <<pos[1], pos[2], -1890>>,
                orientation |-> <<0, 0, 0, S>>]
    /\ has_hit' = FALSE
    /\ has_bounce' = FALSE
    /\ start_range' = <<<<pos[1], start_range[1][2]>>, <<pos[2], start_range[2][2]>>>>
    /\ UNCHANGED <<random_init, action_penalty, sub_problem, ee_end_pos>>

\* setup() taking the target from the y-coordinate of the puck position
setup_at_target_y(pos) ==
    /\ puck_pos' = IF random_init THEN pos ELSE puck_pos
    /\ desired_point' = <<pos[2], 0>>
    /\ call' = [op |-> "setup", placed |-> <<pos[1], pos[2], -1890>>,
                orientation |-> <<0, 0, 0, S>>]
    /\ has_hit' = FALSE
    /\ has_bounce' = FALSE
    /\ UNCHANGED <<random_init, action_penalty, sub_problem, start_range, ee_end_pos>>

\* setup() leaving has_bounce as it is
setup_at_keep_bounce(pos) ==
    /\ puck_pos' = IF random_init THEN pos ELSE puck_pos
    /\ desired_point' = <<pos[1], 0>>
    /\ call' = [op |-> "setup", placed |-> <<pos[1], pos[2], -1890>>,
                orientation |-> <<0, 0, 0, S>>]
    /\ has_hit' = FALSE
    /\ UNCHANGED <<random_init, action_penalty, sub_problem, start_range,
                   ee_end_pos, has_bounce>>

setup_at(pos) ==
    /\ puck_pos' = IF random_init THEN pos ELSE puck_pos
    /\ desired_point' = <<pos[1], 0>>
    /\ call' = [op |-> "setup", placed |-> <<pos[1], pos[2], -1890>>,
                orientation |-> <<0, 0, 0, S>>]
    /\ has_hit' = FALSE
    /\ has_bounce' = FALSE
    /\ UNCHANGED <<random_init, action_penalty, sub_problem, start_range, ee_end_pos>>

setup ==
    IF random_init
    THEN \E u \in RandValues \X RandValues, sign \in {1, -1} :
             setup_at(random_puck_pos(start_range, u, sign))
    ELSE setup_at(mean_puck_pos(start_range))

(***************************************************************************)
(* reward                                                                  *)
(***************************************************************************)
\* 100 * np.exp(-2 * np.linalg.norm(puck_vel))
end_bonus(vel) == 100 * exp(-2 * norm(vel))

\* regime "side", after the hit, shaped wherever |puck_y| < 0.47
side_after_hit_any_x(eend, pos, vel, ee) ==
    IF Abs(pos[2]) < 4700
    THEN LET r_vel_x == Max2(0, S - 10 * (exp(Abs(vel[1])) - S))
             dist_ee_des == norm(<<ee[1] - eend[1], ee[2] - eend[2]>>)
             r_ee == 5000 - dist_ee_des
         IN  Fin(r_vel_x + r_ee + S)
    ELSE Fin(0)

\* regime "side", after the hit
side_after_hit(eend, pos, vel, ee) ==
    IF pos[1] < -3500 /\ Abs(pos[2]) < 4700
    THEN LET r_vel_x == Max2(0, S - 10 * (exp(Abs(vel[1])) - S))
             dist_ee_des == norm(<<ee[1] - eend[1], ee[2] - eend[2]>>)
             r_ee == 5000 - dist_ee_des
         IN  Fin(r_vel_x + r_ee + S)
    ELSE Fin(0)

\* regime "side", before the hit; dividing the zero vector by the zero
\* distance gives nan in both components, and nan goes through @, np.clip,
\* the square and the product
side_before_hit(pos, ee) ==
    LET diff == <<pos[1] - ee[1], pos[2] - ee[2]>>
        dist_ee_puck == norm(diff)
    IN  IF dist_ee_puck = 0 THEN NaN
        ELSE LET vec_ee_puck == <<(diff[1] * S) \div dist_ee_puck,
                                  (diff[2] * S) \div dist_ee_puck>>
                 cos_ang == clip(dot(vec_ee_puck, <<0, copysign(S, pos[2])>>), 0, S)
             IN  Fin(Mul(exp(-8 * (dist_ee_puck - 800)), Mul(cos_ang, cos_ang)))

\* regime "bottom", after the hit, shaped on -0.9 <= puck_x <= -0.6
bottom_after_hit_closed(eend, pos, vel, ee) ==
    IF -6000 >= pos[1] /\ pos[1] >= -9000 /\ Abs(pos[2]) < 4700
    THEN LET sig == 1000
             z == ((pos[1] + 7500) * S) \div sig
             r_x == Mul((S * S) \div Mul(ISqrt(2 * 31416 * S), sig),
                        exp((-Mul(z, z)) \div 2))
             r_y == 2 * S - Abs(vel[2])
             dist_ee_des == norm(<<ee[1] - eend[1], ee[2] - eend[2]>>)
             r_ee == Mul(5000, exp(-3 * dist_ee_des))
         IN  Fin(r_x + r_y + r_ee + S)
    ELSE Fin(0)

\* regime "bottom", after the hit
bottom_after_hit(eend, pos, vel, ee) ==
    IF -6000 > pos[1] /\ pos[1] > -9000 /\ Abs(pos[2]) < 4700
    THEN LET sig == 1000
             z == ((pos[1] + 7500) * S) \div sig
             r_x == Mul((S * S) \div Mul(ISqrt(2 * 31416 * S), sig),
                        exp((-Mul(z, z)) \div 2))
             r_y == 2 * S - Abs(vel[2])
             dist_ee_des == norm(<<ee[1] - eend[1], ee[2] - eend[2]>>)
             r_ee == Mul(5000, exp(-3 * dist_ee_des))
         IN  Fin(r_x + r_y + r_ee + S)
    ELSE Fin(0)

\* regime "bottom", before the hit
bottom_before_hit(pos, ee) ==
    LET diff == <<pos[1] - ee[1], pos[2] - ee[2]>>
        dist_ee_puck == norm(diff)
    IN  IF dist_ee_puck = 0 THEN NaN
        ELSE LET vec_ee_puck == <<(diff[1] * S) \div dist_ee_puck,
                                  (diff[2] * S) \div dist_ee_puck>>
                 cos_ang_side ==
                     clip(dot(vec_ee_puck, <<2000, copysign(8000, pos[2])>>), 0, S)
                 cos_ang_bottom == clip(dot(vec_ee_puck, <<-S, 0>>), 0, S)
                 cos_ang == Max2(cos_ang_side, cos_ang_bottom)
             IN  Fin(Mul(exp(-8 * (dist_ee_puck - 800)), Mul(cos_ang, cos_ang)))

\* r -= self.action_penalty * np.linalg.norm(action); nan stays nan
minus_penalty(r, pen, action) ==
    IF r.finite THEN Fin(r.v - Mul(pen, norm(action))) ELSE NaN

\* reward() with the end bonus of regime "side" not returned at once: the
\* action penalty is subtracted from it
reward_value_bonus_penalised(sp, hit, pen, eend, pos, vel, ee, action, absorbing) ==
    IF sp = "side"
    THEN minus_penalty(IF absorbing /\ Abs(pos[2]) < 4700 THEN Fin(end_bonus(vel))
                       ELSE IF hit THEN side_after_hit(eend, pos, vel, ee)
                       ELSE side_before_hit(pos, ee),
                       pen, action)
    ELSE IF absorbing /\ pos[1] >= -6000
         THEN Fin(end_bonus(vel))
         ELSE minus_penalty(IF hit THEN bottom_after_hit(eend, pos, vel, ee)
                                   ELSE bottom_before_hit(pos, ee),
                            pen, action)

\* reward() with the end bonus of regime "bottom" on puck_x > -0.6 only
reward_value_bottom_strict(sp, hit, pen, eend, pos, vel, ee, action, absorbing) ==
    IF sp = "side"
    THEN IF absorbing /\ Abs(pos[2]) < 4700
         THEN Fin(end_bonus(vel))
         ELSE minus_penalty(IF hit THEN side_after_hit(eend, pos, vel, ee)
                                   ELSE side_before_hit(pos, ee),
                            pen, action)
    ELSE IF absorbing /\ pos[1] > -6000
         THEN Fin(end_bonus(vel))
         ELSE minus_penalty(IF hit THEN bottom_after_hit(eend, pos, vel, ee)
                                   ELSE bottom_before_hit(pos, ee),
                            pen, action)

\* the value reward() returns, from the fields it reads and its arguments
reward_value(sp, hit, pen, eend, pos, vel, ee, action, absorbing) ==
    IF sp = "side"
    THEN IF absorbing /\ Abs(pos[2]) < 4700
         THEN Fin(end_bonus(vel))
         ELSE minus_penalty(IF hit THEN side_after_hit(eend, pos, vel, ee)
                                   ELSE side_before_hit(pos, ee),
                            pen, action)
    ELSE IF absorbing /\ pos[1] >= -6000
         THEN Fin(end_bonus(vel))
         ELSE minus_penalty(IF hit THEN bottom_after_hit(eend, pos, vel, ee)
                                   ELSE bottom_before_hit(pos, ee),
                            pen, action)

reward ==
    \E pos \in PuckPositions, vel \in PuckVelocities, ee \in EEPositions,
       action \in Actions, absorbing \in BOOLEAN :
        /\ call' = [op |-> "reward", puck |-> pos, vel |-> vel, ee |-> ee,
                    action |-> action, absorbing |-> absorbing,
                    ret |-> reward_value(sub_problem, has_hit, action_penalty,
                                         ee_end_pos, pos, vel, ee, action, absorbing)]
        /\ UNCHANGED <<random_init, action_penalty, sub_problem, start_range,
                       desired_point, ee_end_pos, has_hit, has_bounce, puck_pos>>

(***************************************************************************)
(* is_absorbing                                                            *)
(***************************************************************************)
\* is_absorbing with the rim bounce never terminal
is_absorbing_value_no_bounce(sp, hit, bounce, base, pos) ==
    IF base THEN TRUE
    ELSE IF hit /\ (pos[1] > 0 \/ Abs(pos[2]) < 100) THEN TRUE ELSE FALSE

\* is_absorbing with the rim bounce terminal in both regimes
is_absorbing_value_bounce_both(sp, hit, bounce, base, pos) ==
    IF base THEN TRUE
    ELSE IF hit /\ (pos[1] > 0 \/ Abs(pos[2]) < 100) THEN TRUE ELSE bounce

\* is_absorbing without the base termination check
is_absorbing_value_no_base(sp, hit, bounce, base, pos) ==
    IF sp = "side"
    THEN IF hit /\ (pos[1] > 0 \/ Abs(pos[2]) < 100) THEN TRUE ELSE bounce
    ELSE IF hit /\ (pos[1] > 0 \/ Abs(pos[2]) < 100) THEN TRUE ELSE FALSE

\* the value is_absorbing() returns; base is super().is_absorbing(state) and
\* pos the puck position in self._state
is_absorbing_value(sp, hit, bounce, base, pos) ==
    IF base THEN TRUE
    ELSE IF sp = "side"
    THEN IF hit /\ (pos[1] > 0 \/ Abs(pos[2]) < 100) THEN TRUE ELSE bounce
    ELSE IF hit /\ (pos[1] > 0 \/ Abs(pos[2]) < 100) THEN TRUE ELSE FALSE

is_absorbing ==
    \E base \in BOOLEAN, pos \in PuckPositions :
        /\ call' = [op |-> "is_absorbing", base |-> base, puck |-> pos,
                    ret |-> is_absorbing_value(sub_problem, has_hit, has_bounce,
                                               base, pos)]
        /\ UNCHANGED <<random_init, action_penalty, sub_problem, start_range,
                       desired_point, ee_end_pos, has_hit, has_bounce, puck_pos>>

(***************************************************************************)
(* _simulation_post_step                                                   *)
(***************************************************************************)
\* the four rim segments, in the order they are queried
Rims == <<"t_up_rim_l", "t_up_rim_r", "t_down_rim_l", "t_down_rim_r">>

\* has_hit recomputed from the contact points of every call
post_step_hit_unlatched(hit, striker) == striker > 0

\* has_hit set only by more than one contact point
post_step_hit_above_one(hit, striker) ==
    IF ~hit THEN (IF striker > 1 THEN TRUE ELSE hit) ELSE hit

\* has_hit after the call; striker is the number of puck/striker contact points
post_step_hit(hit, striker) ==
    IF ~hit THEN (IF striker > 0 THEN TRUE ELSE hit) ELSE hit

\* has_bounce recomputed from the contact points of every call
post_step_bounce_unlatched(bounce, rims) ==
    0 + rims[1] + rims[2] + rims[3] + rims[4] > 0

\* has_bounce after the call; rims are the four numbers of puck/rim contact points
post_step_bounce(bounce, rims) ==
    IF ~bounce
    THEN LET collision_count == 0 + rims[1] + rims[2] + rims[3] + rims[4]
         IN  IF collision_count > 0 THEN TRUE ELSE bounce
    ELSE bounce

\* every call asking for the contact points of all five links
post_step_queries_all(hit, bounce) ==
    {"planar_robot_1/link_striker_ee"} \cup {Rims[i] : i \in 1..4}

\* the links whose contact points the call asks the physics client for
post_step_queries(hit, bounce) ==
    (IF ~hit THEN {"planar_robot_1/link_striker_ee"} ELSE {})
    \cup (IF ~bounce THEN {Rims[i] : i \in 1..4} ELSE {})

simulation_post_step ==
    \E c \in ContactResults :
        /\ has_hit' = post_step_hit(has_hit, c[1])
        /\ has_bounce' = post_step_bounce(has_bounce, c[2])
        /\ call' = [op |-> "_simulation_post_step", striker |-> c[1],
                    rims |-> c[2],
                    queried |-> post_step_queries(has_hit, has_bounce)]
        /\ UNCHANGED <<random_init, action_penalty, sub_problem, start_range,
                       desired_point, ee_end_pos, puck_pos>>

(***************************************************************************)
(* _create_observation                                                     *)
(***************************************************************************)
\* the flag put in front of the parent's observation
create_observation_value_front(obs, hit) == <<IF hit THEN S ELSE 0>> \o obs

\* np.append(obs, [self.has_hit]): the flag becomes the float 1.0 or 0.0
create_observation_value(obs, hit) == Append(obs, IF hit THEN S ELSE 0)

create_observation ==
    \E obs \in ParentObservations :
        /\ call' = [op |-> "_create_observation", obs |-> obs,
                    ret |-> create_observation_value(obs, has_hit)]
        /\ UNCHANGED <<random_init, action_penalty, sub_problem, start_range,
                       desired_point, ee_end_pos, has_hit, has_bounce, puck_pos>>

(***************************************************************************)
(* The methods are called in any order, any number of times.               *)
(***************************************************************************)
Next ==
    \/ setup /\ UNCHANGED step
    \/ reward /\ UNCHANGED step
    \/ is_absorbing /\ UNCHANGED step
    \/ simulation_post_step /\ UNCHANGED step
    \/ create_observation /\ UNCHANGED step

Spec == Init /\ [][Next]_vars

(***************************************************************************)
(* The methods are called by the step loop of the environment: an episode  *)
(* starts with setup(); a step integrates the physics one or more times,   *)
(* each integration followed by _simulation_post_step(); then reward() and *)
(* is_absorbing() are evaluated, in either order, and the observation is   *)
(* made.  step.struck and step.bounced tell whether an integration of the  *)
(* current step produced a puck/striker or a puck/rim contact point.       *)
(***************************************************************************)
\* the loop at the start of a step
step_ready == [pc |-> "ready", n |-> 0, struck |-> FALSE, bounced |-> FALSE]

\* the episode starts
reset_episode ==
    /\ step.pc \in {"constructed", "ready"}
    /\ setup
    /\ step' = step_ready

\* the physics engine integrates once and produces the contact points c
integrate_physics ==
    /\ step.pc \in {"ready", "tracked"}
    /\ step.n < MaxIntermediate
    /\ \E c \in ContactResults :
           step' = [pc |-> "integrated", n |-> step.n + 1, contacts |-> c,
                    struck |-> step.struck \/ c[1] > 0,
                    bounced |-> step.bounced
                                \/ c[2][1] + c[2][2] + c[2][3] + c[2][4] > 0]
    /\ UNCHANGED <<random_init, action_penalty, sub_problem, start_range,
                   desired_point, ee_end_pos, has_hit, has_bounce, puck_pos, call>>

\* the contact history is updated from the contact points of the integration
post_step_update ==
    /\ step.pc = "integrated"
    /\ simulation_post_step
    /\ call'.striker = step.contacts[1]
    /\ call'.rims = step.contacts[2]
    /\ step' = [pc |-> "tracked", n |-> step.n, struck |-> step.struck,
                bounced |-> step.bounced]

\* the evaluations of the current step that have been made
evaluated == IF step.pc = "evaluating" THEN step.done ELSE {}

\* the reward of the step is computed
compute_reward ==
    /\ step.pc \in {"tracked", "evaluating"}
    /\ "reward" \notin evaluated
    /\ reward
    /\ step' = [pc |-> "evaluating", n |-> step.n, struck |-> step.struck,
                bounced |-> step.bounced, done |-> evaluated \cup {"reward"}]

\* the termination of the step is decided
is_episode_absorbing ==
    /\ step.pc \in {"tracked", "evaluating"}
    /\ "is_absorbing" \notin evaluated
    /\ is_absorbing
    /\ step' = [pc |-> "evaluating", n |-> step.n, struck |-> step.struck,
                bounced |-> step.bounced, done |-> evaluated \cup {"is_absorbing"}]

\* the observation of the step is made and the step ends
assemble_observation ==
    /\ step.pc = "evaluating"
    /\ step.done = {"reward", "is_absorbing"}
    /\ create_observation
    /\ step' = step_ready

StepNext ==
    \/ reset_episode
    \/ integrate_physics
    \/ post_step_update
    \/ compute_reward
    \/ is_episode_absorbing
    \/ assemble_observation

StepSpec == Init /\ [][StepNext]_vars

(***************************************************************************)
(* Properties.                                                             *)
(***************************************************************************)

\* C1: has_hit and has_bounce are both false right after every setup(), and
\* a step of any other method never takes either flag from true to false.
C1_FlagsClearedThenMonotonic ==
    [][/\ call'.op = "setup" => (~has_hit' /\ ~has_bounce')
       /\ call'.op # "setup" => /\ has_hit => has_hit'
                                /\ has_bounce => has_bounce']_vars

\* both latches are set and have stayed set over a later call of another method
C1_Witness ==
    /\ call.op \in {"reward", "is_absorbing", "_create_observation"}
    /\ has_hit
    /\ has_bounce

\* C2: in regime "side" with the base check false, is_absorbing returns true
\* exactly when (has_hit and (puck_x > 0 or |puck_y| < 0.01)) or has_bounce.
C2_SideAbsorbing ==
    (call.op = "is_absorbing" /\ sub_problem = "side" /\ ~call.base)
        => (call.ret <=> \/ has_hit /\ (call.puck[1] > 0 \/ Abs(call.puck[2]) < 100)
                         \/ has_bounce)

\* after the hit, no bounce, the puck at (0.1, 0.2): absorbing
C2_Witness ==
    /\ call.op = "is_absorbing" /\ sub_problem = "side" /\ ~call.base
    /\ has_hit /\ ~has_bounce
    /\ call.puck = <<1000, 2000>>
    /\ call.ret

\* C3: in regime "bottom" with the base check false, is_absorbing returns
\* true exactly when has_hit and (puck_x > 0 or |puck_y| < 0.01), whatever
\* has_bounce is.
C3_BottomAbsorbing ==
    (call.op = "is_absorbing" /\ sub_problem = "bottom" /\ ~call.base)
        => (call.ret <=> has_hit /\ (call.puck[1] > 0 \/ Abs(call.puck[2]) < 100))

\* the puck has bounced off a rim and the episode is not absorbing
C3_Witness ==
    /\ call.op = "is_absorbing" /\ sub_problem = "bottom" /\ ~call.base
    /\ has_bounce
    /\ ~call.ret

\* C4: when the base termination check is true, is_absorbing returns true in
\* both regimes, for every has_hit, has_bounce and puck position.
C4_BaseAbsorbing ==
    (call.op = "is_absorbing" /\ call.base) => call.ret

\* the base check alone makes the episode absorbing
C4_Witness ==
    /\ call.op = "is_absorbing" /\ call.base
    /\ ~has_hit /\ ~has_bounce
    /\ call.puck = <<-2000, 3000>>
    /\ call.ret

\* C5: in regime "side", a reward() call with absorbing true and
\* |puck_y| < 0.47 returns 100 * exp(-2 * ||puck_velocity||), whatever has_hit
\* and the action are; no action penalty is subtracted.
C5_SideEndBonus ==
    (/\ call.op = "reward" /\ sub_problem = "side"
     /\ call.absorbing /\ Abs(call.puck[2]) < 4700)
        => call.ret = Fin(100 * exp(-2 * norm(call.vel)))

\* the bonus of a moving puck, after the hit, with a non-zero action
C5_Witness ==
    /\ call.op = "reward" /\ sub_problem = "side"
    /\ call.absorbing /\ Abs(call.puck[2]) < 4700
    /\ has_hit
    /\ call.action = <<3000, 4000, 0>>
    /\ call.vel = <<500, -1000>>
    /\ call.ret.finite /\ call.ret.v > 0 /\ call.ret.v < 100 * S

\* C6: in regime "bottom", a reward() call with absorbing true and
\* puck_x >= -0.6 returns 100 * exp(-2 * ||puck_velocity||), whatever has_hit,
\* puck_y and the action are, with no action penalty; with absorbing true and
\* puck_x < -0.6 it returns the has_hit-dependent reward minus the penalty.
C6_BottomEndBonus ==
    (call.op = "reward" /\ sub_problem = "bottom" /\ call.absorbing)
        => IF call.puck[1] >= -6000
           THEN call.ret = Fin(100 * exp(-2 * norm(call.vel)))
           ELSE call.ret =
                    minus_penalty(IF has_hit
                                  THEN bottom_after_hit(ee_end_pos, call.puck,
                                                        call.vel, call.ee)
                                  ELSE bottom_before_hit(call.puck, call.ee),
                                  action_penalty, call.action)

\* the bonus on the boundary puck_x = -0.6, with a non-zero action
C6_Witness ==
    /\ call.op = "reward" /\ sub_problem = "bottom" /\ call.absorbing
    /\ call.puck[1] = -6000
    /\ call.action = <<3000, 4000, 0>>
    /\ call.vel = <<0, 0>>
    /\ call.ret = Fin(100 * S)

\* C7 as stated: in regime "side", every reward() call after the hit with the
\* puck not at puck_x < -0.35 returns -action_penalty * ||action||.
C7_Original ==
    (/\ call.op = "reward" /\ sub_problem = "side"
     /\ has_hit /\ ~(call.puck[1] < -3500))
        => call.ret = Fin(0 - Mul(action_penalty, norm(call.action)))

\* C7: in regime "side", every reward() call after the hit with the puck not
\* at puck_x < -0.35, and not both absorbing and at |puck_y| < 0.47, returns
\* -action_penalty * ||action||.
C7_SidePostHitZero ==
    (/\ call.op = "reward" /\ sub_problem = "side"
     /\ has_hit /\ ~(call.puck[1] < -3500)
     /\ ~(call.absorbing /\ Abs(call.puck[2]) < 4700))
        => call.ret = Fin(0 - Mul(action_penalty, norm(call.action)))

\* after the hit, the puck at x = -0.2, not absorbing, a non-zero action
C7_Witness ==
    /\ call.op = "reward" /\ sub_problem = "side"
    /\ has_hit /\ ~call.absorbing
    /\ call.puck = <<-2000, 3000>>
    /\ call.action = <<3000, 4000, 0>>
    /\ call.ret = Fin(-5)

\* C8: a reward() call before the hit, off the end-bonus path, with the puck
\* on the end-effector (distance 0) returns a finite value.
C8_ZeroDistanceGuarded ==
    (/\ call.op = "reward" /\ ~has_hit
     /\ call.puck = call.ee
     /\ ~(IF sub_problem = "side"
          THEN call.absorbing /\ Abs(call.puck[2]) < 4700
          ELSE call.absorbing /\ call.puck[1] >= -6000))
        => call.ret.finite

\* C9 as stated: no step changes sub_problem, random_init, action_penalty,
\* start_range, desired_point or ee_end_pos.
C9_Original ==
    [][UNCHANGED <<sub_problem, random_init, action_penalty, start_range,
                   desired_point, ee_end_pos>>]_vars

\* C9: no step changes sub_problem, random_init, action_penalty, start_range
\* or ee_end_pos, and only setup() changes desired_point.
C9_ConfigurationFrame ==
    [][/\ UNCHANGED <<sub_problem, random_init, action_penalty, start_range,
                      ee_end_pos>>
       /\ desired_point' # desired_point => call'.op = "setup"]_vars

\* setup() has moved desired_point away from its construction-time value
C9_Witness ==
    /\ call.op = "setup"
    /\ desired_point # <<-6000, 0>>
    /\ start_range = init_start_range(sub_problem)

\* C10: a _simulation_post_step() call that follows another one and is
\* handed no contact point the first one was not handed leaves has_hit and
\* has_bounce as the first call left them.
C10_PostStepIdempotent ==
    [][(/\ call.op = "_simulation_post_step"
        /\ call'.op = "_simulation_post_step"
        /\ call'.striker <= call.striker
        /\ \A i \in 1..4 : call'.rims[i] <= call.rims[i])
           => (has_hit' = has_hit /\ has_bounce' = has_bounce)]_vars

\* a call that is handed no contact point at all and leaves both latches set
C10_Witness ==
    /\ call.op = "_simulation_post_step"
    /\ call.striker = 0
    /\ call.rims = <<0, 0, 0, 0>>
    /\ call.queried = {}
    /\ has_hit
    /\ has_bounce

\* C12: after every setup() the target point is (puck_x, 0), puck_x the
\* x-coordinate of the position the puck was placed at in that call, with and
\* without random initialization.
C12_TargetOnCentreline ==
    call.op = "setup" => desired_point = <<call.placed[1], 0>>

\* a random start mirrored to negative y, away from the construction-time target
C12_Witness ==
    /\ call.op = "setup"
    /\ random_init
    /\ call.placed[2] < 0
    /\ call.placed[1] # -6000
    /\ desired_point = <<call.placed[1], 0>>

\* C13: the position setup() places the puck at has, with random
\* initialization, x in the x-range and |y| in the y-range of the regime, and
\* is, without it, the midpoint of both ranges.
C13_StartInRange ==
    call.op = "setup" =>
        LET xr == IF sub_problem = "side" THEN <<-8000, -4000>> ELSE <<-9000, -8000>>
            yr == IF sub_problem = "side" THEN <<2500, 4600>> ELSE <<1250, 4600>>
        IN  IF random_init
            THEN /\ xr[1] <= call.placed[1] /\ call.placed[1] <= xr[2]
                 /\ yr[1] <= Abs(call.placed[2]) /\ Abs(call.placed[2]) <= yr[2]
            ELSE /\ 2 * call.placed[1] = xr[1] + xr[2]
                 /\ 2 * call.placed[2] = yr[1] + yr[2]

\* a random start strictly inside the ranges, on the mirrored side
C13_Witness ==
    /\ call.op = "setup"
    /\ random_init
    /\ sub_problem = "bottom"
    /\ call.placed[1] > -9000
    /\ call.placed[2] < -1250
    /\ puck_pos = <<call.placed[1], call.placed[2]>>

\* C14: in regime "side", a reward() call with absorbing true, after a rim
\* bounce and without the hit-crossing condition of is_absorbing, returns a
\* value that is not positive.
C14_BouncePunished ==
    (/\ call.op = "reward" /\ sub_problem = "side"
     /\ call.absorbing
     /\ has_bounce
     /\ ~(has_hit /\ (call.puck[1] > 0 \/ Abs(call.puck[2]) < 100)))
        => (call.ret.finite /\ call.ret.v <= 0)

\* C15: the observation _create_observation returns is the parent's
\* observation followed by one element, the value of has_hit (1.0 or 0.0).
C15_ObservationFlag ==
    call.op = "_create_observation" =>
        /\ Len(call.ret) = Len(call.obs) + 1
        /\ SubSeq(call.ret, 1, Len(call.obs)) = call.obs
        /\ call.ret[Len(call.ret)] = (IF has_hit THEN S ELSE 0)

\* an observation made after the hit, the flag behind the parent's elements
C15_Witness ==
    /\ call.op = "_create_observation"
    /\ has_hit
    /\ call.obs = <<-7500, 3000>>
    /\ call.ret = <<-7500, 3000, S>>

\* C16: a _simulation_post_step() call asks for puck/striker contacts only
\* while has_hit is false and for puck/rim contacts only while has_bounce is
\* false; has_hit changes only on a puck/striker contact, and has_bounce is set
\* exactly when the contact counts of the four rims sum to more than zero.
C16_IndependentLatches ==
    [][call'.op = "_simulation_post_step" =>
        LET rimsum == call'.rims[1] + call'.rims[2] + call'.rims[3] + call'.rims[4]
        IN  /\ ("planar_robot_1/link_striker_ee" \in call'.queried) <=> ~has_hit
            /\ \A i \in 1..4 : (Rims[i] \in call'.queried) <=> ~has_bounce
            /\ ~has_hit => (has_hit' <=> call'.striker > 0)
            /\ ~has_bounce => (has_bounce' <=> rimsum > 0)
            /\ has_hit => has_hit'
            /\ has_bounce => has_bounce']_vars

\* a puck/striker contact with the hit latch set: only the rims are asked
\* for, and has_bounce stays false
C16_Witness ==
    /\ call.op = "_simulation_post_step"
    /\ call.striker > 0
    /\ call.rims = <<0, 0, 0, 0>>
    /\ call.queried = {Rims[i] : i \in 1..4}
    /\ has_hit
    /\ ~has_bounce

\* C17: in regime "bottom", a reward() call after the hit and off the
\* end-bonus path returns r_x + r_y + r_ee + 1 if -0.9 < puck_x < -0.6 and
\* |puck_y| < 0.47, and 0 otherwise, minus action_penalty * ||action||.
C17_BottomPostHit ==
    (/\ call.op = "reward" /\ sub_problem = "bottom"
     /\ has_hit
     /\ ~(call.absorbing /\ call.puck[1] >= -6000))
        => LET x == call.puck[1]
               d == norm(<<call.ee[1] - ee_end_pos[1], call.ee[2] - ee_end_pos[2]>>)
               z == (x + 7500) * 10
               r_x == (39904 * exp((-((z * z) \div S)) \div 2)) \div S
               r_y == 20000 - Abs(call.vel[2])
               r_ee == (5000 * exp(-3 * d)) \div S
               base == IF -9000 < x /\ x < -6000 /\ Abs(call.puck[2]) < 4700
                       THEN r_x + r_y + r_ee + 10000
                       ELSE 0
           IN  call.ret = Fin(base - (action_penalty * norm(call.action)) \div S)

\* the shaped reward at the peak puck_x = -0.75, with a non-zero action
C17_Witness ==
    /\ call.op = "reward" /\ sub_problem = "bottom"
    /\ has_hit /\ ~call.absorbing
    /\ call.puck = <<-7500, 3000>>
    /\ call.action = <<3000, 4000, 0>>
    /\ call.ret.finite /\ call.ret.v > 5 * S

\* C18: in regime "side", while has_bounce is set every is_absorbing() call
\* returns true; only setup() clears has_bounce; right after setup()
\* is_absorbing() returns false when the base check is false.
C18_BounceTerminalUntilSetup ==
    [][/\ (sub_problem = "side" /\ has_bounce' /\ call'.op = "is_absorbing")
              => call'.ret
       /\ (has_bounce /\ call'.op # "setup") => has_bounce'
       /\ call'.op = "setup" =>
              \A pos \in PuckPositions :
                  ~is_absorbing_value(sub_problem', has_hit', has_bounce', FALSE, pos)]_vars

\* absorbing by the bounce alone: no hit, base check false, puck off the
\* centreline
C18_Witness ==
    /\ call.op = "is_absorbing" /\ sub_problem = "side"
    /\ has_bounce /\ ~has_hit
    /\ ~call.base
    /\ call.puck = <<-7500, 4700>>
    /\ call.ret

\* C11: in every environment step, when reward() or is_absorbing() has been
\* evaluated, every integration of the step has been followed by
\* _simulation_post_step(), and has_hit (has_bounce) is true if an integration
\* of the step produced a puck/striker (puck/rim) contact point.
C11_ContactsSeenBeforeEvaluation ==
    step.pc = "evaluating" =>
        /\ call.op \in step.done
        /\ step.n >= 1
        /\ step.struck => has_hit
        /\ step.bounced => has_bounce

\* both evaluations made in a step whose integrations produced both contacts
C11_Witness ==
    /\ step.pc = "evaluating"
    /\ step.done = {"reward", "is_absorbing"}
    /\ step.struck
    /\ step.bounced
    /\ has_hit
    /\ has_bounce

====
